---- MODULE Spec2Model ----
(***************************************************************************)
(* Model of qaeval/openllm.py: the prompt builder (_prepare), the second   *)
(* pass builder (_prepare_second_pass), the judgment parser                *)
(* (_parse_response) and the driver (llm_eval).                            *)
(*                                                                         *)
(* Text is modelled as a sequence of tokens.  A token is a piece of text   *)
(* that the code never looks inside: a word of the regular expressions, a  *)
(* quote, a dot, a white-space character, the '###' delimiter, a template  *)
(* placeholder, or an opaque word.  Python's str operations are computed   *)
(* on these sequences (split, join, strip, startswith, lower, capitalize,  *)
(* format) and re.match / re.search by a backtracking matcher with         *)
(* Python's priorities (greedy first, leftmost alternative first).         *)
(***************************************************************************)
EXTENDS Integers, Sequences, FiniteSets, TLC

VARIABLES
    pc,                 \* position of the modelled call
    model_name_or_path, \* llm_eval / _prepare argument
    template_file,      \* content of prompt_file
    context_passage,    \* json.load(context_file), or NoContext
    candidates,         \* sequence of candidates
    examples,           \* result of _prepare
    requests,           \* bodies posted to the endpoint, in order
    responses,          \* llm_eval's responses list
    outputs,            \* llm_eval's return value
    raised,             \* the exception that ended the call, or NoError
    log,                \* logger.warning records, in order
    response,           \* _parse_response argument
    judgment,           \* _parse_response return value
    chats,              \* _prepare_second_pass argument
    model_responses,    \* _prepare_second_pass argument
    new_chats           \* _prepare_second_pass return value

vars == <<pc, model_name_or_path, template_file, context_passage, candidates,
          examples, requests, responses, outputs, raised, log, response,
          judgment, chats, model_responses, new_chats>>

None == "<None>"
\* None where the code otherwise holds a text
NoneText == <<None>>

(***************************************************************************)
(* Bounds of the checked input sets.                                       *)
(***************************************************************************)
\* tokens that follow the phrase of a response handed to _parse_response
MaxPost == 2
\* tokens of the prompt file handed to _prepare
MaxTpl == 3
\* responses of one chat handed to _prepare_second_pass
MaxSamples == 2
\* candidates handed to llm_eval
MaxCands == 2

(***************************************************************************)
(* Sequence helpers.                                                       *)
(***************************************************************************)
RECURSIVE SeqsUpTo(_, _)
SeqsUpTo(S, n) ==
    IF n = 0 THEN {<<>>}
    ELSE LET shorter == SeqsUpTo(S, n - 1)
         IN  shorter \cup {Append(s, x) : s \in {t \in shorter : Len(t) = n - 1}, x \in S}

(***************************************************************************)
(* str.lower() and str.capitalize() on the tokens that have letter case.   *)
(***************************************************************************)
Lower(t) ==
    CASE t = "YES" -> "yes"
      [] t = "Yes" -> "yes"
      [] t = "NO" -> "no"
      [] t = "No" -> "no"
      [] t = "I can answer" -> "i can answer"
      [] t = "I would say" -> "i would say"
      [] t = "I must say" -> "i must say"
      [] t = "I would judge the candidate answer as" -> "i would judge the candidate answer as"
      [] t = "Judgment:" -> "judgment:"
      [] OTHER -> t

Capitalize(t) ==
    CASE Lower(t) = "yes" -> "Yes"
      [] Lower(t) = "no" -> "No"
      [] OTHER -> t

LowerText(s) == [k \in 1..Len(s) |-> Lower(s[k])]

\* str.startswith(word) for a one-token word
StartsWith(s, word) == Len(s) >= 1 /\ s[1] = word

(***************************************************************************)
(* Regular expressions.  A pattern is a sequence of elements:              *)
(*   star            .*   (DOTALL: any tokens, newline included), greedy   *)
(*   lit(S)          a literal: one token whose lower case is in S         *)
(*   opt(S)          x?   greedy                                           *)
(*   plus(S)         x+   greedy                                           *)
(*   eol             $    (MULTILINE: end of text or before a newline)     *)
(* grp is the number of the capture group the element is, 0 for none.      *)
(* All matching is IGNORECASE: tokens are compared in lower case.          *)
(***************************************************************************)
Star == [t |-> "star", set |-> {}, grp |-> 0]
Lit(S) == [t |-> "lit", set |-> S, grp |-> 0]
Grp(S, g) == [t |-> "lit", set |-> S, grp |-> g]
Opt(S) == [t |-> "opt", set |-> S, grp |-> 0]
OptGrp(S, g) == [t |-> "opt", set |-> S, grp |-> g]
Plus(S) == [t |-> "plus", set |-> S, grp |-> 0]
Eol == [t |-> "eol", set |-> {}, grp |-> 0]

Quote == {"'", "\""}
Space == {" ", "\n"}
YesNo == {"yes", "no"}

NoGroups == [g \in 1..2 |-> None]
NoMatch == <<>>

SetGroup(caps, g, tok) == IF g = 0 THEN caps ELSE [caps EXCEPT ![g] = tok]

\* The result of matching pat[i..] at position pos of s: NoMatch, or
\* <<groups>> for the first match in the matcher's backtracking order.
RECURSIVE MatchHere(_, _, _, _, _)
RECURSIVE MatchStar(_, _, _, _, _, _)
RECURSIVE MatchPlus(_, _, _, _, _, _)
MatchHere(pat, s, i, pos, caps) ==
    IF i > Len(pat) THEN <<caps>>
    ELSE LET e == pat[i]
             fits == pos <= Len(s) /\ Lower(s[pos]) \in e.set
         IN  CASE e.t = "star" -> MatchStar(pat, s, i, pos, caps, Len(s) + 1)
               [] e.t = "lit" ->
                    IF fits THEN MatchHere(pat, s, i + 1, pos + 1, SetGroup(caps, e.grp, s[pos]))
                    ELSE NoMatch
               [] e.t = "opt" ->
                    LET taken == IF fits
                                 THEN MatchHere(pat, s, i + 1, pos + 1, SetGroup(caps, e.grp, s[pos]))
                                 ELSE NoMatch
                    IN  IF taken # NoMatch THEN taken ELSE MatchHere(pat, s, i + 1, pos, caps)
               [] e.t = "plus" ->
                    LET run == CHOOSE n \in 0..(Len(s) + 1 - pos) :
                                  /\ \A k \in pos..(pos + n - 1) : Lower(s[k]) \in e.set
                                  /\ (pos + n > Len(s) \/ Lower(s[pos + n]) \notin e.set)
                    IN  MatchPlus(pat, s, i, pos, caps, run)
               [] e.t = "eol" ->
                    IF pos = Len(s) + 1 \/ (pos <= Len(s) /\ s[pos] = "\n")
                    THEN MatchHere(pat, s, i + 1, pos, caps)
                    ELSE NoMatch

\* .* having consumed up to (not including) position next, longest first
MatchStar(pat, s, i, pos, caps, next) ==
    IF next < pos THEN NoMatch
    ELSE LET m == MatchHere(pat, s, i + 1, next, caps)
         IN  IF m # NoMatch THEN m ELSE MatchStar(pat, s, i, pos, caps, next - 1)

\* x+ consuming n tokens, longest first, at least one
MatchPlus(pat, s, i, pos, caps, n) ==
    IF n < 1 THEN NoMatch
    ELSE LET m == MatchHere(pat, s, i + 1, pos + n, caps)
         IN  IF m # NoMatch THEN m ELSE MatchPlus(pat, s, i, pos, caps, n - 1)

\* The language of a pattern, without the matcher's priorities: every way
\* pat[i..] matches from position pos, as the position where the match ends
\* and the groups it captures.
RECURSIVE Matches(_, _, _, _, _)
Matches(pat, s, i, pos, caps) ==
    IF i > Len(pat) THEN {[end |-> pos, groups |-> caps]}
    ELSE LET e == pat[i]
             fits == pos <= Len(s) /\ Lower(s[pos]) \in e.set
             taken == IF fits
                      THEN Matches(pat, s, i + 1, pos + 1, SetGroup(caps, e.grp, s[pos]))
                      ELSE {}
         IN  CASE e.t = "star" ->
                    UNION {Matches(pat, s, i + 1, p, caps) : p \in pos..(Len(s) + 1)}
               [] e.t = "lit" -> taken
               [] e.t = "opt" -> taken \cup Matches(pat, s, i + 1, pos, caps)
               [] e.t = "plus" ->
                    UNION {Matches(pat, s, i + 1, p, caps) :
                             p \in {q \in (pos + 1)..(Len(s) + 1) :
                                       \A k \in pos..(q - 1) : Lower(s[k]) \in e.set}}
               [] e.t = "eol" ->
                    IF pos = Len(s) + 1 \/ (pos <= Len(s) /\ s[pos] = "\n")
                    THEN Matches(pat, s, i + 1, pos, caps)
                    ELSE {}

\* some prefix of s is in the pattern's language / the whole of s is
PrefixMatches(pat, s) == Matches(pat, s, 1, 1, NoGroups)
PrefixAccepts(pat, s) == PrefixMatches(pat, s) # {}
FullAccepts(pat, s) == \E m \in PrefixMatches(pat, s) : m.end = Len(s) + 1

\* Mutant of ReMatch: re.fullmatch in place of re.match.
ReFullMatch(pat, s) ==
    IF FullAccepts(pat, s) THEN MatchHere(pat, s, 1, 1, NoGroups) ELSE NoMatch

\* re.match: anchored at the start of the text, not at its end
ReMatch(pat, s) == MatchHere(pat, s, 1, 1, NoGroups)

\* re.search: the first position from which the pattern matches
ReSearch(pat, s) == \E start \in 1..(Len(s) + 1) : MatchHere(pat, s, 1, start, NoGroups) # NoMatch

(***************************************************************************)
(* _parse_response: the pattern tables.                                    *)
(*                                                                         *)
(* Tokenisation of the literals.  'my (final )?judgment is' is the tokens  *)
(* "my", optional " final" (group 1), " judgment is": the same two texts,  *)
(* with the blank moved to the front of each token so that no token ends   *)
(* in white space.  ',? the candidate( answer)? is' is optional ",",       *)
(* " the candidate", optional " answer" (group 2), " is".  The search      *)
(* pattern 'candidate( answer)? is correct' starts inside the token        *)
(* " the candidate".                                                       *)
(***************************************************************************)
Tail1 == <<Plus(Space), Opt(Quote), Grp(YesNo, 1), Opt(Quote), Opt({".", "!"})>>

patterns ==
    << [re |-> <<Star, Opt(Quote), Grp(YesNo, 1), Opt({"."}), Opt(Quote), Opt({".", "!"}), Eol>>,
        idx |-> 1],
       [re |-> <<Star, Lit({"i can answer"})>> \o Tail1, idx |-> 1],
       [re |-> <<Star, Lit({"i would say"})>> \o Tail1, idx |-> 1],
       [re |-> <<Star, Lit({"i must say"})>> \o Tail1, idx |-> 1],
       [re |-> <<Star, Lit({"my"}), OptGrp({" final"}, 1), Lit({" judgment is"}), Plus(Space),
                 Opt(Quote), Grp(YesNo, 2), Opt(Quote), Opt({".", "!"})>>,
        idx |-> 2],
       [re |-> <<Star, Lit({"i would judge the candidate answer as"})>> \o Tail1, idx |-> 1],
       [re |-> <<Star, Plus(Space), Opt(Quote), Grp(YesNo, 1), Opt(Quote), Opt({","}),
                 Lit({" the candidate"}), OptGrp({" answer"}, 2), Lit({" is"})>>,
        idx |-> 1],
       [re |-> <<Star, Lit({"judgment:"}), Plus(Space), Opt(Quote), Grp(YesNo, 1), Opt({"."}),
                 Opt(Quote)>>,
        idx |-> 1] >>

correct_patterns ==
    << <<Lit({" the candidate"}), Opt({" answer"}), Lit({" is"}), Lit({" correct"})>>,
       <<Lit({"candidate's correct"})>> >>

\* Mutant of PatternLoop: the table is walked from its last pattern to its first.
RECURSIVE PatternLoopReversed(_, _)
PatternLoopReversed(resp, k) ==
    IF k > Len(patterns) THEN ""
    ELSE LET p == patterns[Len(patterns) + 1 - k]
             matched == ReMatch(p.re, resp)
         IN  IF matched # NoMatch
             THEN Capitalize(matched[1][p.idx])
             ELSE PatternLoopReversed(resp, k + 1)

\* for pattern in patterns: ... if matched: acceptable = group.capitalize(); break
RECURSIVE PatternLoop(_, _)
PatternLoop(resp, k) ==
    IF k > Len(patterns) THEN ""
    ELSE LET matched == ReMatch(patterns[k].re, resp)
         IN  IF matched # NoMatch
             THEN Capitalize(matched[1][patterns[k].idx])
             ELSE PatternLoop(resp, k + 1)

\* for pattern in correct_patterns: ... if matched: acceptable = "Yes"; break
RECURSIVE CorrectLoop(_, _)
CorrectLoop(resp, k) ==
    IF k > Len(correct_patterns) THEN ""
    ELSE IF ReSearch(correct_patterns[k], resp) THEN "Yes"
    ELSE CorrectLoop(resp, k + 1)

Warning(question, candidate_answer, resp) ==
    [level |-> "warning", what |-> "Invalid response", question |-> question,
     candidate_answer |-> candidate_answer, response |-> resp]

\* Mutant of Acceptable: startswith without lower().
AcceptableCaseSensitive(resp) ==
    IF StartsWith(resp, "yes") THEN "Yes"
    ELSE IF StartsWith(resp, "no") THEN "No"
    ELSE LET first == PatternLoop(resp, 1)
         IN  IF first # "" THEN first ELSE CorrectLoop(resp, 1)

\* The value of `acceptable` at line 183.
Acceptable(resp) ==
    IF StartsWith(LowerText(resp), "yes") THEN "Yes"
    ELSE IF StartsWith(LowerText(resp), "no") THEN "No"
    ELSE LET first == PatternLoop(resp, 1)
         IN  IF first # "" THEN first ELSE CorrectLoop(resp, 1)

\* Mutant of ParseLogs: the warning is logged for every rejected response.
ParseLogsAnyReject(resp, candidate_answer, question) ==
    IF Acceptable(resp) # "Yes" THEN <<Warning(question, candidate_answer, resp)>> ELSE <<>>

\* The records logged by _parse_response (line 181).
ParseLogs(resp, candidate_answer, question) ==
    IF StartsWith(LowerText(resp), "yes") \/ StartsWith(LowerText(resp), "no") THEN <<>>
    ELSE IF Acceptable(resp) = "" THEN <<Warning(question, candidate_answer, resp)>>
    ELSE <<>>

\* _parse_response(response, candidate_answer, question): its return value
\* and the records it logs
_parse_response(resp, candidate_answer, question) ==
    [value |-> IF Acceptable(resp) = "Yes" THEN 1 ELSE 0,
     logged |-> ParseLogs(resp, candidate_answer, question)]

(***************************************************************************)
(* Python str and dict operations used by the prompt builders.             *)
(***************************************************************************)
Last(s) == s[Len(s)]
Front(s) == SubSeq(s, 1, Len(s) - 1)

\* str.strip(): white space removed from both ends
RECURSIVE LStrip(_)
LStrip(s) == IF s # <<>> /\ Head(s) \in Space THEN LStrip(Tail(s)) ELSE s
RECURSIVE RStrip(_)
RStrip(s) == IF s # <<>> /\ Last(s) \in Space THEN RStrip(Front(s)) ELSE s
Strip(s) == RStrip(LStrip(s))

\* str.split(sep): the sections between the occurrences of sep, at least one
RECURSIVE SplitFrom(_, _, _, _)
SplitFrom(s, sep, k, cur) ==
    IF k > Len(s) THEN <<cur>>
    ELSE IF s[k] = sep THEN <<cur>> \o SplitFrom(s, sep, k + 1, <<>>)
    ELSE SplitFrom(s, sep, k + 1, Append(cur, s[k]))
Split(s, sep) == SplitFrom(s, sep, 1, <<>>)

\* sep.join(parts)
RECURSIVE Join(_, _)
Join(sep, parts) ==
    IF parts = <<>> THEN <<>>
    ELSE IF Len(parts) = 1 THEN parts[1]
    ELSE parts[1] \o <<sep>> \o Join(sep, Tail(parts))

\* sub in text
Contains(s, tok) == \E k \in 1..Len(s) : s[k] = tok

\* A dict is a set of <<key, value>> pairs with distinct keys; json.load of
\* the context file gives one, None stands for no file.
NoContext == [loaded |-> FALSE, items |-> {}]
Context(items) == [loaded |-> TRUE, items |-> items]
HasKey(d, key) == \E kv \in d.items : kv[1] = key
\* dict.get(key, default)
Get(d, key, default) ==
    IF HasKey(d, key) THEN (CHOOSE kv \in d.items : kv[1] = key)[2] ELSE default
\* truth value of context_passage: neither None nor an empty dict
Truthy(d) == d.loaded /\ d.items # {}

(***************************************************************************)
(* _prepare                                                                *)
(***************************************************************************)
CONVERSATIONAL_MODELS ==
    {"meta-llama/Llama-2-7b-chat-hf", "meta-llama/Llama-2-13b-chat-hf",
     "mistralai/Mistral-7B-Instruct-v0.1", "HuggingFaceH4/zephyr-7b-beta",
     "allenai/tulu-2-7b", "allenai/tulu-2-dpo-7b"}

_is_conversational(name) == name \in CONVERSATIONAL_MODELS

\* "Mistral" in name or "tulu-2" in name, on the model names of the inputs
SkipsSplit(name) ==
    \/ name \in {"mistralai/Mistral-7B-Instruct-v0.1"}
    \/ name \in {"allenai/tulu-2-7b", "allenai/tulu-2-dpo-7b"}

\* ", ".join([f'"{a}"' for a in gold_answers])
RECURSIVE QuotedAnswers(_)
QuotedAnswers(answers) ==
    IF answers = <<>> THEN <<>>
    ELSE <<<<"\"", Head(answers), "\"">>>> \o QuotedAnswers(Tail(answers))
JoinAnswers(answers) == Join(", ", QuotedAnswers(answers))

\* if not question.endswith("?"): question += "?"
WithMark(question) ==
    IF question # <<>> /\ Last(question) = "?" THEN question ELSE Append(question, "?")

\* str(value) of a format argument
Str(value) == IF value = NoneText THEN <<"None">> ELSE value

Placeholders == {"{q}", "{answers}", "{candidate_answer}", "{passage}"}
KeyError(key) == [type |-> "KeyError", key |-> key]
NoError == [type |-> None, key |-> None]

\* prompt_template.format(**kwargs): kwargs is a set of <<name, value>>
\* pairs; a placeholder with no keyword argument raises KeyError
RECURSIVE FormatFrom(_, _, _)
FormatFrom(template, kwargs, k) ==
    IF k > Len(template) THEN [raised |-> NoError, text |-> <<>>]
    ELSE LET tok == template[k]
             rest == FormatFrom(template, kwargs, k + 1)
         IN  IF tok \notin Placeholders
             THEN [rest EXCEPT !.text = <<tok>> \o @]
             ELSE IF ~HasKey([items |-> kwargs], tok)
             THEN [raised |-> KeyError(tok), text |-> <<>>]
             ELSE [rest EXCEPT !.text = Str(Get([items |-> kwargs], tok, NoneText)) \o @]
Format(template, kwargs) == FormatFrom(template, kwargs, 1)

\* lines 85-94: the filled template of one candidate
Fill(prompt_template, context, candidate) ==
    LET gold_answers == JoinAnswers(candidate.question.answers)
        question == WithMark(candidate.question.text)
        passage == Get(context, question, Get(context, Front(question), NoneText))
        common == {<<"{q}", question>>, <<"{answers}", gold_answers>>,
                   <<"{candidate_answer}", candidate.answer>>}
    IN  IF Truthy(context)
        THEN Format(prompt_template, common \cup {<<"{passage}", passage>>})
        ELSE Format(prompt_template, common)

Turn(role, content) == [role |-> role, content |-> content]
TextPrompt(text) == [kind |-> "str", text |-> text, turns |-> <<>>]
ChatPrompt(turns) == [kind |-> "list", text |-> <<>>, turns |-> turns]

\* lines 101-103: the instruction (None when there is a single section)
Instruction(prompt) ==
    LET sections == Split(prompt, "###")
    IN  IF Len(sections) > 1 THEN Join("###", Front(sections)) ELSE NoneText

\* Mutant of Wrap: the instruction is tested with `is not None`.
WrapIsNotNone(prompt, name) ==
    IF _is_conversational(name)
    THEN LET instruction == IF SkipsSplit(name) THEN NoneText ELSE Instruction(prompt)
             content == IF SkipsSplit(name) THEN prompt
                        ELSE Strip(Last(Split(prompt, "###")))
             system == IF instruction # NoneText
                       THEN <<Turn("system", instruction)>> ELSE <<>>
         IN  ChatPrompt(system \o <<Turn("user", content)>>)
    ELSE TextPrompt(prompt)

\* lines 96-112: the prompt appended for one filled template
Wrap(prompt, name) ==
    IF _is_conversational(name)
    THEN LET instruction == IF SkipsSplit(name) THEN NoneText ELSE Instruction(prompt)
             content == IF SkipsSplit(name) THEN prompt
                        ELSE Strip(Last(Split(prompt, "###")))
             \* if instruction: neither None nor the empty string
             system == IF instruction # NoneText /\ instruction # <<>>
                       THEN <<Turn("system", instruction)>> ELSE <<>>
         IN  ChatPrompt(system \o <<Turn("user", content)>>)
    ELSE TextPrompt(prompt)

\* for candidate in candidates: ...; an exception ends the call
RECURSIVE PrepareLoop(_, _, _, _, _)
PrepareLoop(cands, prompt_template, name, context, k) ==
    IF k > Len(cands) THEN [raised |-> NoError, prompts |-> <<>>]
    ELSE LET filled == Fill(prompt_template, context, cands[k])
             rest == PrepareLoop(cands, prompt_template, name, context, k + 1)
         IN  IF filled.raised # NoError THEN [raised |-> filled.raised, prompts |-> <<>>]
             ELSE IF rest.raised # NoError THEN rest
             ELSE [rest EXCEPT !.prompts = <<Wrap(filled.text, name)>> \o @]

\* _prepare(candidates, prompt_file, model_name_or_path, context_file):
\* file_content is what prompt_file holds, context what context_file gives
_prepare(cands, file_content, name, context) ==
    PrepareLoop(cands, Strip(file_content), name, context, 1)

(***************************************************************************)
(* _prepare_second_pass                                                    *)
(*                                                                         *)
(* An element of a new chat is a turn or, after history.append(chat[1:]),  *)
(* a list of turns.                                                        *)
(***************************************************************************)
TurnItem(turn) == [isList |-> FALSE, turn |-> turn, list |-> <<>>]
ListItem(turns) == [isList |-> TRUE, turn |-> Turn(None, <<>>), list |-> turns]
Items(turns) == [k \in 1..Len(turns) |-> TurnItem(turns[k])]

\* a model response: one str, or a list of str
OneResponse(text) == [isStr |-> TRUE, texts |-> <<text>>]
ManyResponses(texts) == [isStr |-> FALSE, texts |-> texts]

FollowUp == Turn("user", <<"Please tell me your final judgment in only 'yes' or 'no'">>)

\* lines 120-124
History(chat) ==
    IF chat # <<>> /\ chat[1].role = "system"
    THEN <<ListItem(Tail(chat))>>
    ELSE Items(chat)

\* lines 130-131
Truncated(r) == IF Contains(r, "###") THEN Strip(Split(r, "###")[1]) ELSE r

\* lines 129-139: the chats appended for the responses of one chat
RECURSIVE FanOut(_, _)
FanOut(history, resp) ==
    IF resp = <<>> THEN <<>>
    ELSE <<history \o <<TurnItem(Turn("assistant", Truncated(Head(resp)))), TurnItem(FollowUp)>>>>
             \o FanOut(history, Tail(resp))

Min(a, b) == IF a <= b THEN a ELSE b

\* _prepare_second_pass(chats, model_responses)
RECURSIVE SecondPassFrom(_, _, _)
SecondPassFrom(chs, resps, k) ==
    IF k > Min(Len(chs), Len(resps)) THEN <<>>
    ELSE FanOut(History(chs[k]), resps[k].texts) \o SecondPassFrom(chs, resps, k + 1)
_prepare_second_pass(chs, resps) == SecondPassFrom(chs, resps, 1)

(***************************************************************************)
(* llm_eval                                                                *)
(***************************************************************************)
AssertionError == [type |-> "AssertionError", key |-> "prompt_file is required in llm_eval"]

\* what requests.post(...).json()["response"] comes to
Reply(text) == [ok |-> TRUE, error |-> None, text |-> text]
Failure(error) == [ok |-> FALSE, error |-> error, text |-> <<>>]
Failures ==
    {Failure("ConnectionError"), Failure("JSONDecodeError"), Failure("KeyError: 'response'")}

ApiWarning(error) ==
    [level |-> "warning", what |-> "Ollama API call failed", question |-> <<>>,
     candidate_answer |-> <<>>, response |-> <<error>>]

\* Mutant of PromptText: every turn of the chat is sent.
RECURSIVE AllContents(_)
AllContents(turns) ==
    IF turns = <<>> THEN <<>> ELSE Head(turns).content \o AllContents(Tail(turns))
PromptTextAllTurns(prompt) ==
    IF prompt.kind = "list" THEN AllContents(prompt.turns) ELSE prompt.text

\* lines 281-287
PromptText(prompt) ==
    IF prompt.kind = "list"
    THEN IF Last(prompt.turns).role = "user"
         THEN Last(prompt.turns).content
         ELSE Last(prompt.turns)
    ELSE prompt.text

\* Mutant of Collected: the text of the exception is kept as the response.
CollectedError(resps, reply) ==
    Append(resps, IF reply.ok THEN reply.text ELSE <<reply.error>>)

\* lines 294 and 297: responses.append(...)
Collected(resps, reply) == Append(resps, IF reply.ok THEN reply.text ELSE <<>>)

\* round(x / y): Python rounds a half to the even neighbour
Round(x, y) ==
    LET q == x \div y
        r == x % y
    IN  IF 2 * r < y THEN q
        ELSE IF 2 * r > y THEN q + 1
        ELSE IF q % 2 = 0 THEN q ELSE q + 1

Sum(judgments) == IF judgments = <<>> THEN 0 ELSE judgments[1]

Output(score, raw, judgments) == [score |-> score, response |-> raw, judgments |-> judgments]

\* Mutant of Judge: responses are read from the end of the list.
RECURSIVE JudgeReversed(_, _, _)
JudgeReversed(cands, resps, index) ==
    IF index > Len(cands) THEN [outputs |-> <<>>, logged |-> <<>>]
    ELSE LET num_judgments == 1
             resp == resps[Len(resps) + 1 - index]
             parsed == _parse_response(resp, cands[index].answer, cands[index].question.text)
             judgments == <<parsed.value>>
             rest == JudgeReversed(cands, resps, index + 1)
         IN  [outputs |-> <<Output(Round(Sum(judgments), num_judgments), resp, judgments)>>
                             \o rest.outputs,
              logged |-> parsed.logged \o rest.logged]

\* lines 301-308: for index in range(len(candidates)): ...
RECURSIVE Judge(_, _, _)
Judge(cands, resps, index) ==
    IF index > Len(cands) THEN [outputs |-> <<>>, logged |-> <<>>]
    ELSE LET num_judgments == 1
             resp == resps[index]
             parsed == _parse_response(resp, cands[index].answer, cands[index].question.text)
             judgments == <<parsed.value>>
             rest == Judge(cands, resps, index + 1)
         IN  [outputs |-> <<Output(Round(Sum(judgments), num_judgments), resps[index], judgments)>>
                             \o rest.outputs,
              logged |-> parsed.logged \o rest.logged]

(***************************************************************************)
(* Inputs.                                                                 *)
(***************************************************************************)
\* A candidate is a Candidate object or a dict (lines 73-81); _prepare reads
\* the same three values from either.  llm_eval reads candidates[index].answer
\* and .question.text (line 306), so its candidates are Candidate objects.
Question(text, answers) == [text |-> text, answers |-> answers]
Candidate(question, answer) == [question |-> question, answer |-> answer]

Q1 == Question(<<"who">>, <<"a1">>)
Q2 == Question(<<"who", "?">>, <<"a1", "a2">>)
Cand1 == Candidate(Q1, <<"a1">>)
Cand2 == Candidate(Q2, <<"b", "###", "c">>)

\* responses handed to the parser: one of Prefixes, then a phrase of the
\* pattern tables (or none), then up to MaxPost tokens of PostTok
PostTok == {"yes", "YES", "no", " ", "\n", ".", "'", "x"}
Prefixes == {<<>>, <<"x">>, <<"No">>, <<" ", "yes">>, <<" ", "No">>, <<"x", "\n">>}
Phrases ==
    { <<>>,
      <<"I can answer", " ">>, <<"I would say", " ">>, <<"I would say">>, <<"I must say", " ">>,
      <<"my", " judgment is", " ">>, <<"my", " final", " judgment is", " ">>,
      <<"I would judge the candidate answer as", " ">>,
      <<" the candidate", " is">>, <<",", " the candidate", " answer", " is">>,
      <<"Judgment:", " ">>,
      <<" the candidate", " is", " correct">>,
      <<" the candidate", " answer", " is", " correct">>,
      <<"candidate's correct">> }
ParseInputs ==
    {pre \o mid \o post : pre \in Prefixes, mid \in Phrases, post \in SeqsUpTo(PostTok, MaxPost)}

(***************************************************************************)
(* Specification of one call of _parse_response.                           *)
(***************************************************************************)
InitParse ==
    /\ pc = "parse"
    /\ response \in ParseInputs
    /\ candidates \in {<<Cand1>>}
    /\ judgment = None /\ log = <<>> /\ raised = NoError
    /\ model_name_or_path = None /\ template_file = <<>> /\ context_passage = NoContext
    /\ examples = <<>> /\ requests = <<>> /\ responses = <<>> /\ outputs = <<>>
    /\ chats = <<>> /\ model_responses = <<>> /\ new_chats = <<>>

Parse ==
    /\ pc = "parse"
    /\ LET r == _parse_response(response, candidates[1].answer, candidates[1].question.text)
       IN  /\ judgment' = r.value
           /\ log' = log \o r.logged
    /\ pc' = "parsed"
    /\ UNCHANGED <<model_name_or_path, template_file, context_passage, candidates, examples,
                   requests, responses, outputs, raised, response, chats, model_responses,
                   new_chats>>

NextParse == Parse

SpecParse == InitParse /\ [][NextParse]_vars

(***************************************************************************)
(* Properties of _parse_response.                                          *)
(***************************************************************************)
YesPrefix(resp) == Len(resp) >= 1 /\ Lower(resp[1]) = "yes"
NoPrefix(resp) == Len(resp) >= 1 /\ Lower(resp[1]) = "no"
Explicit(resp) == {k \in 1..Len(patterns) : ReMatch(patterns[k].re, resp) # NoMatch}
Indirect(resp) == {k \in 1..Len(correct_patterns) : ReSearch(correct_patterns[k], resp)}
FirstOf(S) == CHOOSE k \in S : \A j \in S : k <= j
\* the token the k-th explicit pattern captures in resp
Token(resp, k) == ReMatch(patterns[k].re, resp)[1][patterns[k].idx]
TokenValue(tok) == IF Lower(tok) = "yes" THEN 1 ELSE 0
NoStepMatches(resp) ==
    ~YesPrefix(resp) /\ ~NoPrefix(resp) /\ Explicit(resp) = {} /\ Indirect(resp) = {}

\* C3: a response that no step matches is judged 0, and the warning (naming
\* the question, the candidate answer and the response) is logged in exactly
\* that case; a response decided by a step logs nothing and changes nothing
\* else.
DefaultRejectAndWarn ==
    pc = "parsed" =>
        /\ NoStepMatches(response) => judgment = 0
        /\ IF NoStepMatches(response)
           THEN log = <<Warning(candidates[1].question.text, candidates[1].answer, response)>>
           ELSE log = <<>>
        /\ raised = NoError /\ requests = <<>> /\ outputs = <<>>

DefaultRejectWitness ==
    pc = "parsed" /\ NoStepMatches(response) /\ Len(response) >= 2 /\ Len(log) = 1

\* C4: a response that starts with "yes" in any letter case is judged 1 and
\* one that starts with "no" in any letter case is judged 0, whatever
\* follows.
PrefixDecides ==
    pc = "parsed" =>
        /\ YesPrefix(response) => judgment = 1
        /\ NoPrefix(response) => judgment = 0

\* an upper-case "YES" followed by text that the explicit patterns read as no
PrefixDecidesWitness ==
    /\ pc = "parsed" /\ judgment = 1
    /\ Len(response) >= 2 /\ response[1] = "YES"
    /\ Explicit(Tail(response)) # {}
    /\ TokenValue(Token(Tail(response), FirstOf(Explicit(Tail(response))))) = 0

\* C5: without a yes/no prefix the first explicit pattern, in table order,
\* that matches fixes the judgment by its captured token; the indirect
\* patterns count only when no explicit pattern matches, and then any match
\* gives 1.
PatternPriority ==
    (pc = "parsed" /\ ~YesPrefix(response) /\ ~NoPrefix(response)) =>
        LET matching == Explicit(response)
        IN  IF matching # {}
            THEN judgment = TokenValue(Token(response, FirstOf(matching)))
            ELSE judgment = IF Indirect(response) # {} THEN 1 ELSE 0

\* two explicit patterns match with opposite tokens and the earlier one wins
PatternPriorityWitness ==
    /\ pc = "parsed" /\ ~YesPrefix(response) /\ ~NoPrefix(response)
    /\ \E k \in Explicit(response) :
           /\ k # FirstOf(Explicit(response))
           /\ TokenValue(Token(response, k)) # TokenValue(Token(response, FirstOf(Explicit(response))))
    /\ judgment = TokenValue(Token(response, FirstOf(Explicit(response))))

\* C6 as stated: the explicit pattern that decides matches the whole response.
DecidingPatternIsFullMatch ==
    (pc = "parsed" /\ ~YesPrefix(response) /\ ~NoPrefix(response) /\ Explicit(response) # {}) =>
        FullAccepts(patterns[FirstOf(Explicit(response))].re, response)

\* C6 as amended: an explicit pattern decides as soon as a prefix of the
\* response is in its language (the match is anchored at the start of the
\* response only): the first such pattern, in table order, fixes the
\* judgment to one of its tokens and nothing is logged; text after the
\* matched phrasing does not prevent it.  With no such pattern the indirect
\* patterns and the default decide.
PrefixLanguage(resp) == {k \in 1..Len(patterns) : PrefixAccepts(patterns[k].re, resp)}
\* the tokens the k-th pattern can capture in a prefix of resp
PrefixTokens(resp, k) ==
    {m.groups[patterns[k].idx] : m \in PrefixMatches(patterns[k].re, resp)}
DecidingPatternIsPrefixMatch ==
    (pc = "parsed" /\ ~YesPrefix(response) /\ ~NoPrefix(response)) =>
        LET deciding == PrefixLanguage(response)
        IN  IF deciding # {}
            THEN /\ log = <<>>
                 /\ \E tok \in PrefixTokens(response, FirstOf(deciding)) :
                       judgment = TokenValue(tok)
            ELSE /\ judgment = (IF Indirect(response) # {} THEN 1 ELSE 0)
                 /\ (log = <<>>) = (Indirect(response) # {})

\* a pattern other than the first decides a response whose matched phrasing
\* is followed by text that the pattern does not cover
PrefixMatchWitness ==
    /\ pc = "parsed" /\ ~YesPrefix(response) /\ ~NoPrefix(response)
    /\ PrefixLanguage(response) # {}
    /\ FirstOf(PrefixLanguage(response)) > 1
    /\ ~FullAccepts(patterns[FirstOf(PrefixLanguage(response))].re, response)
    /\ judgment = 0 /\ log = <<>>

(***************************************************************************)
(* Specification of one call of _prepare.                                  *)
(***************************************************************************)
Cand3 == Candidate(Question(<<"when">>, <<>>), <<" ">>)
ModelNames ==
    {"meta-llama/Llama-2-7b-chat-hf", "mistralai/Mistral-7B-Instruct-v0.1",
     "allenai/tulu-2-7b", "lmsys/vicuna-13b-v1.5-16k"}
Contexts ==
    {NoContext, Context({}), Context({<<<<"who", "?">>, <<"p1">>>>}),
     Context({<<<<"who">>, <<"p2">>>>, <<<<"where", "?">>, <<"p3">>>>}),
     Context({<<<<"where", "?">>, <<"p3">>>>})}
TplTok == {"{q}", "{candidate_answer}", "{passage}", "{answers}", "###", " ", "t"}
CandidateLists == {<<Cand1>>, <<Cand2>>, <<Cand3>>, <<Cand1, Cand3>>}

InitPrepare ==
    /\ pc = "prepare"
    /\ template_file \in SeqsUpTo(TplTok, MaxTpl)
    /\ model_name_or_path \in ModelNames
    /\ context_passage \in Contexts
    /\ candidates \in CandidateLists
    /\ examples = <<>> /\ raised = NoError
    /\ requests = <<>> /\ responses = <<>> /\ outputs = <<>> /\ log = <<>>
    /\ response = <<>> /\ judgment = None
    /\ chats = <<>> /\ model_responses = <<>> /\ new_chats = <<>>

Prepare ==
    /\ pc = "prepare"
    /\ LET r == _prepare(candidates, template_file, model_name_or_path, context_passage)
       IN  /\ examples' = r.prompts
           /\ raised' = r.raised
           /\ pc' = IF r.raised = NoError THEN "prepared" ELSE "raised"
    /\ UNCHANGED <<model_name_or_path, template_file, context_passage, candidates, requests,
                   responses, outputs, log, response, judgment, chats, model_responses,
                   new_chats>>

NextPrepare == Prepare

SpecPrepare == InitPrepare /\ [][NextPrepare]_vars

(***************************************************************************)
(* Properties of _prepare.                                                 *)
(***************************************************************************)
\* a passage is found for the candidate's question, under the question text
\* that ends in '?' or under that text without the '?'
PassageFound(context, candidate) ==
    LET question == WithMark(candidate.question.text)
    IN  context.loaded /\ (HasKey(context, question) \/ HasKey(context, Front(question)))

Returned == pc \in {"prepared", "raised"}

\* C7: when the template references {passage} and no passage is found for a
\* candidate's question, _prepare raises an error that names the key and
\* returns no prompt.
MissingPassageFailsFast ==
    (/\ Returned
     /\ Contains(Strip(template_file), "{passage}")
     /\ \E k \in 1..Len(candidates) : ~PassageFound(context_passage, candidates[k]))
        => (raised = KeyError("{passage}") /\ examples = <<>>)

\* the position of the last '###' of a text, 0 when it has none
LastDelimiter(text) ==
    IF Contains(text, "###")
    THEN CHOOSE d \in 1..Len(text) :
            text[d] = "###" /\ \A k \in (d + 1)..Len(text) : text[k] # "###"
    ELSE 0
BeforeLast(text) == SubSeq(text, 1, LastDelimiter(text) - 1)
AfterLast(text) == SubSeq(text, LastDelimiter(text) + 1, Len(text))
FilledText(k) == Fill(Strip(template_file), context_passage, candidates[k]).text
Splitting ==
    pc = "prepared" /\ _is_conversational(model_name_or_path) /\ ~SkipsSplit(model_name_or_path)

\* C9 as stated: whenever the filled template holds a '###' the chat is a
\* system turn with everything before the last '###' and a user turn with
\* the rest; without a '###' it is the user turn alone.
SystemTurnWheneverSplit ==
    Splitting =>
        \A k \in 1..Len(candidates) :
            examples[k].turns =
                IF LastDelimiter(FilledText(k)) > 0
                THEN <<Turn("system", BeforeLast(FilledText(k))),
                       Turn("user", Strip(AfterLast(FilledText(k))))>>
                ELSE <<Turn("user", Strip(AfterLast(FilledText(k))))>>

\* C9 as amended: the system turn is there exactly when the text before the
\* last '###' is not empty; the user turn holds the last section with the
\* white space at its ends removed.  At most one system turn, placed first,
\* and exactly one user turn, placed last.
SystemTurnWhenInstruction ==
    Splitting =>
        \A k \in 1..Len(candidates) :
            LET turns == examples[k].turns
            IN  /\ examples[k].kind = "list"
                /\ turns =
                     IF LastDelimiter(FilledText(k)) > 0 /\ BeforeLast(FilledText(k)) # <<>>
                     THEN <<Turn("system", BeforeLast(FilledText(k))),
                            Turn("user", Strip(AfterLast(FilledText(k))))>>
                     ELSE <<Turn("user", Strip(AfterLast(FilledText(k))))>>
                /\ Last(turns).role = "user"
                /\ \A j \in 1..(Len(turns) - 1) : j = 1 /\ turns[j].role = "system"

\* a filled template with two '###': the system turn keeps the first one
SystemTurnWitness ==
    /\ Splitting
    /\ \E k \in 1..Len(candidates) :
          /\ Len(examples[k].turns) = 2
          /\ Contains(examples[k].turns[1].content, "###")
          /\ examples[k].turns[2].content # <<>>

(***************************************************************************)
(* Specification of one call of _prepare_second_pass.                      *)
(***************************************************************************)
\* chats as _prepare builds them, and the empty chat
ChatShapes ==
    {<<Turn("user", <<"X">>)>>,
     <<Turn("system", <<"S">>), Turn("user", <<"X">>)>>,
     <<>>}
\* responses as run_inference returns them (stripped, line 261)
ResponseTexts ==
    {<<"Yes">>, <<"Yes", " ", "because", " ", "###", " ", "extra">>, <<"###", "no">>,
     <<"a", "###", "b", "###", "c">>}
ResponseShapes ==
    {OneResponse(t) : t \in ResponseTexts}
        \cup {ManyResponses(ts) : ts \in SeqsUpTo(ResponseTexts, MaxSamples)}
Pairs == {<<c, r>> : c \in ChatShapes, r \in ResponseShapes}

InitSecond ==
    /\ pc = "second"
    /\ \E ps \in SeqsUpTo(Pairs, 2) \ {<<>>} :
          /\ chats = [k \in 1..Len(ps) |-> ps[k][1]]
          /\ model_responses = [k \in 1..Len(ps) |-> ps[k][2]]
    /\ new_chats = <<>>
    /\ model_name_or_path = None /\ template_file = <<>> /\ context_passage = NoContext
    /\ candidates = <<>> /\ examples = <<>> /\ raised = NoError
    /\ requests = <<>> /\ responses = <<>> /\ outputs = <<>> /\ log = <<>>
    /\ response = <<>> /\ judgment = None

SecondPass ==
    /\ pc = "second"
    /\ new_chats' = _prepare_second_pass(chats, model_responses)
    /\ pc' = "second_done"
    /\ UNCHANGED <<model_name_or_path, template_file, context_passage, candidates, examples,
                   requests, responses, outputs, raised, log, response, judgment, chats,
                   model_responses>>

NextSecond == SecondPass

SpecSecond == InitSecond /\ [][NextSecond]_vars

\* the chat without its leading system turn
WithoutSystem(chat) == IF chat # <<>> /\ chat[1].role = "system" THEN Tail(chat) ELSE chat
\* the response cut at its first '###' and trimmed
CutAndTrimmed(r) == Strip(Split(r, "###")[1])
ExpectedChat(chat, r) ==
    Items(WithoutSystem(chat) \o <<Turn("assistant", CutAndTrimmed(r)), FollowUp>>)
RECURSIVE ExpectedChats(_, _, _)
ExpectedChats(chs, resps, k) ==
    IF k > Len(chs) THEN <<>>
    ELSE [j \in 1..Len(resps[k].texts) |-> ExpectedChat(chs[k], resps[k].texts[j])]
             \o ExpectedChats(chs, resps, k + 1)

\* C8: every response of every chat yields one flat chat: the original turns
\* without the system turn, the assistant turn with the response cut at its
\* first '###' and trimmed, then the fixed follow-up user turn; the chats
\* come in chat order and, within a chat, in response order.
SecondPassFlatChats ==
    pc = "second_done" => new_chats = ExpectedChats(chats, model_responses, 1)

(***************************************************************************)
(* Specification of one call of llm_eval.                                  *)
(***************************************************************************)
NoFile == NoneText
EvalTemplates ==
    {NoFile, <<"{q}">>, <<"t", "###", "{q}", " ", "{candidate_answer}", "\n">>,
     <<"{passage}", "###", "{q}">>}
EvalModels ==
    {"meta-llama/Llama-2-7b-chat-hf", "mistralai/Mistral-7B-Instruct-v0.1",
     "lmsys/vicuna-13b-v1.5-16k"}
EvalContexts == {NoContext, Context({<<<<"who", "?">>, <<"p1">>>>})}
EvalReplies ==
    {Reply(<<"Yes">>), Reply(<<"I would say", " ", "no">>), Reply(<<"x">>)} \cup Failures

InitEval ==
    /\ pc = "eval"
    /\ template_file \in EvalTemplates
    /\ model_name_or_path \in EvalModels
    /\ context_passage \in EvalContexts
    /\ candidates \in SeqsUpTo({Cand1, Cand2}, MaxCands)
    /\ examples = <<>> /\ raised = NoError
    /\ requests = <<>> /\ responses = <<>> /\ outputs = <<>> /\ log = <<>>
    /\ response = <<>> /\ judgment = None
    /\ chats = <<>> /\ model_responses = <<>> /\ new_chats = <<>>

\* lines 269-275: the keyword arguments, the assertion and _prepare
Start ==
    /\ pc = "eval"
    /\ IF template_file = NoFile
       THEN /\ raised' = AssertionError
            /\ examples' = examples
            /\ pc' = "raised"
       ELSE LET r == _prepare(candidates, template_file, model_name_or_path, context_passage)
            IN  /\ examples' = r.prompts
                /\ raised' = r.raised
                /\ pc' = IF r.raised = NoError THEN "request" ELSE "raised"
    /\ UNCHANGED <<model_name_or_path, template_file, context_passage, candidates, requests,
                   responses, outputs, log, response, judgment, chats, model_responses,
                   new_chats>>

\* lines 279-297: one turn of the request loop; the endpoint's answer is the
\* environment's choice
Request ==
    /\ pc = "request"
    /\ Len(responses) < Len(examples)
    /\ \E reply \in EvalReplies :
          LET prompt == examples[Len(responses) + 1]
              body == [model |-> model_name_or_path, prompt |-> PromptText(prompt),
                       stream |-> FALSE]
          IN  /\ requests' = Append(requests, [json |-> body, reply |-> reply])
              /\ responses' = Collected(responses, reply)
              /\ log' = IF reply.ok THEN log ELSE Append(log, ApiWarning(reply.error))
    /\ UNCHANGED <<pc, model_name_or_path, template_file, context_passage, candidates,
                   examples, outputs, raised, response, judgment, chats, model_responses,
                   new_chats>>

\* lines 298-310: the judgments and the return
Finish ==
    /\ pc = "request"
    /\ Len(responses) = Len(examples)
    /\ LET r == Judge(candidates, responses, 1)
       IN  /\ outputs' = r.outputs
           /\ log' = log \o r.logged
    /\ pc' = "done"
    /\ UNCHANGED <<model_name_or_path, template_file, context_passage, candidates, examples,
                   requests, responses, raised, response, judgment, chats, model_responses,
                   new_chats>>

NextEval == Start \/ Request \/ Finish

SpecEval == InitEval /\ [][NextEval]_vars

(***************************************************************************)
(* Properties of llm_eval.                                                 *)
(***************************************************************************)
\* the prompt _prepare builds for the i-th candidate taken alone
BuiltFor(i) ==
    _prepare(<<candidates[i]>>, template_file, model_name_or_path, context_passage).prompts[1]
\* what the i-th call handed back: the response text, "" for a failed call
RawOf(i) == IF requests[i].reply.ok THEN requests[i].reply.text ELSE <<>>
JudgmentOf(text, i) ==
    _parse_response(text, candidates[i].answer, candidates[i].question.text).value
FailedCalls == {k \in 1..Len(requests) : ~requests[k].reply.ok}
ApiWarnings == {k \in 1..Len(log) : log[k].what = "Ollama API call failed"}

\* C1: llm_eval returns one output per candidate, in the candidates' order:
\* output i holds the raw response obtained for the prompt built from
\* candidate i and the judgment parsed from that response, in a list of
\* exactly one judgment; no mix of call outcomes ends the call otherwise.
OneOutputPerCandidate ==
    /\ pc = "raised" => requests = <<>>
    /\ pc = "done" =>
          /\ Len(outputs) = Len(candidates)
          /\ Len(requests) = Len(candidates)
          /\ \A i \in 1..Len(candidates) :
                /\ requests[i].json.prompt = PromptText(BuiltFor(i))
                /\ outputs[i].response = RawOf(i)
                /\ Len(outputs[i].judgments) = 1
                /\ outputs[i].judgments[1] = JudgmentOf(RawOf(i), i)
                /\ outputs[i].score = outputs[i].judgments[1]

\* two candidates with different prompts and different responses, the first
\* rejected and the second accepted
OneOutputWitness ==
    /\ pc = "done" /\ Len(candidates) = 2
    /\ requests[1].json.prompt # requests[2].json.prompt
    /\ outputs[1].response # <<>> /\ outputs[1].score = 0
    /\ outputs[2].score = 1

\* C2: a failed call does not end llm_eval: "" is recorded as that
\* candidate's response and a warning is logged, the calls for the later
\* candidates are still issued, the failed candidate's output is score 0
\* with judgments [0], and every other output is what its own response
\* gives.
FailedCallDegrades ==
    /\ pc \in {"request", "done"} => raised = NoError
    /\ pc = "request" => Len(requests) = Len(responses) /\ Len(responses) <= Len(examples)
    /\ \A k \in FailedCalls : responses[k] = <<>>
    /\ Cardinality(ApiWarnings) = Cardinality(FailedCalls)
    /\ pc = "done" =>
          /\ Len(requests) = Len(candidates)
          /\ \A i \in 1..Len(candidates) :
                outputs[i] =
                    IF i \in FailedCalls
                    THEN Output(0, <<>>, <<0>>)
                    ELSE Output(JudgmentOf(requests[i].reply.text, i), requests[i].reply.text,
                                <<JudgmentOf(requests[i].reply.text, i)>>)

\* the first call fails, the second is still issued and its candidate accepted
FailedCallWitness ==
    /\ pc = "done" /\ Len(candidates) = 2
    /\ FailedCalls = {1}
    /\ outputs[1] = Output(0, <<>>, <<0>>)
    /\ outputs[2].score = 1

\* C10: the prompt of a request is the content of the last (user) turn of a
\* chat prompt, and the whole text of a flat prompt; the body of a request
\* holds nothing else of the prompt, so an instruction placed in a system
\* turn is never sent.
OnlyUserTurnIsSent ==
    \A k \in 1..Len(requests) :
        LET prompt == examples[k]
            body == requests[k].json
        IN  /\ DOMAIN body = {"model", "prompt", "stream"}
            /\ body.model = model_name_or_path
            /\ IF prompt.kind = "list"
               THEN /\ Last(prompt.turns).role = "user"
                    /\ body.prompt = Last(prompt.turns).content
               ELSE body.prompt = prompt.text

\* a request for a chat whose system turn holds an instruction
OnlyUserTurnWitness ==
    \E k \in 1..Len(requests) :
        /\ Len(examples[k].turns) = 2
        /\ examples[k].turns[1].role = "system"
        /\ examples[k].turns[1].content # <<>>
        /\ requests[k].json.prompt = examples[k].turns[2].content
        /\ requests[k].json.prompt # examples[k].turns[1].content

====
